---- MODULE Spec2Model ----
(***************************************************************************)
(* Model of the AmongUsContract Soroban contract                           *)
(* (amongus_contract/contracts/game/src/lib.rs).                           *)
(*                                                                         *)
(* The contract keeps everything in instance storage under the DataKey     *)
(* keys Admin, Verifier, Config, GameState, Players and UsedNullifier(n).  *)
(* Every public function is one host transaction: it either returns, and  *)
(* its writes are committed, or it panics, and the host rolls back every   *)
(* write it made.  A handler is therefore an operator from the storage at  *)
(* entry and the call's arguments to a result [err, store]; err = "ok" is  *)
(* a return, any other err is the panic message.                           *)
(*                                                                         *)
(* Address::require_auth is the host's check that the named address signed *)
(* the call; the address argument of a call is that authenticated caller.  *)
(***************************************************************************)
EXTENDS Integers, FiniteSets, Sequences, TLC

\* ------------------------------------------------------------------ bounds
\* Addresses are 0..NumPlayers; address 0 is the one given to init as admin.
NumPlayers == 4
\* Nullifier tokens are 1..NumNullifiers.
NumNullifiers == 3
\* start_meeting is explored while round < MaxRound.
MaxRound == 3
\* The tasks_to_win value the admin configures in the explored runs.
TasksGoal == 2
\* The impostor_count given to init in the explored runs.
ImpostorCount == 2

\* ------------------------------------------------------- program constants
MinPlayers == 4
DefaultMaxPlayers == 15
DefaultTasksToWin == 40

\* ------------------------------------------------------------------ values
AdminAddr == 0
Addresses == 0..NumPlayers
Nullifiers == 1..NumNullifiers

\* BytesN<32> values are numbered; 0 is BytesN::from_array(&env, &[0; 32]).
ZeroHash == 0
HashOf(a) == a + 1
Hashes == {ZeroHash} \cup {HashOf(a) : a \in Addresses}
RoleOf(a) == a + 1

NoVerifier == "unset"
MockVerifierId == "mock_verifier"

PhaseSymbols == {"lobby", "playing", "meeting", "ended"}
WinnerSymbols == {"none", "crew", "impost"}
\* A Symbol that names no phase and no winner.
OtherSymbol == "paused"

VARIABLES
    admin,            \* DataKey::Admin
    verifier,         \* DataKey::Verifier, NoVerifier while the key is absent
    config,           \* DataKey::Config      : GameConfig
    state,            \* DataKey::GameState   : GameState
    players,          \* DataKey::Players     : Map<Address, Player>
    used_nullifiers   \* { n : DataKey::UsedNullifier(n) is present }

vars == <<admin, verifier, config, state, players, used_nullifiers>>

\* The instance storage as one value.
Store ==
    [admin |-> admin, verifier |-> verifier, config |-> config, state |-> state,
     players |-> players, used |-> used_nullifiers]

Ok(s) == [err |-> "ok", store |-> s]
\* A panic aborts the transaction: the storage is what it was at entry.
Panic(s, msg) == [err |-> msg, store |-> s]


\* ------------------------------------------------------- private helpers
\* ensure_not_ended: the panic it raises, or "ok".
ensure_not_ended(s) ==
    IF s.state.phase = "ended" THEN "game already ended" ELSE "ok"

\* The comparison with the stored admin left out: every caller passes.
require_admin_anyone(s, caller) == "ok"

\* require_admin: the panic it raises, or "ok".  init always stores Admin,
\* so the "admin not set" branch is never taken after init.
require_admin(s, caller) ==
    IF s.admin # caller THEN "not admin" ELSE "ok"

Alive(ps) == {a \in DOMAIN ps : ps[a].alive}

\* Every roster entry counted, dead ones included.
count_alive_whole_roster(ps) == Cardinality(DOMAIN ps)

count_alive(ps) == Cardinality(Alive(ps))

RECURSIVE SumTasks(_, _)
SumTasks(ps, as) ==
    IF as = {} THEN 0
    ELSE LET a == CHOOSE x \in as : TRUE
         IN  ps[a].tasks_done + SumTasks(ps, as \ {a})

\* The tasks of dead players left out of the total.
total_tasks_of_living(ps) == SumTasks(ps, Alive(ps))

total_tasks(ps) == SumTasks(ps, DOMAIN ps)

\* meeting_active left as it was when the winner is written.
set_winner_keeps_meeting(s, winner) ==
    [s EXCEPT !.state.winner = winner,
              !.state.phase = "ended"]

set_winner(s, winner) ==
    [s EXCEPT !.state.winner = winner,
              !.state.phase = "ended",
              !.state.meeting_active = FALSE]

\* The map rebuilt from the one entry written: every other key is lost.
MapSetDroppingOthers(ps, a, entry) == [x \in {a} |-> entry]

\* Map::set(key, value)
MapSet(ps, a, entry) ==
    [x \in (DOMAIN ps) \cup {a} |-> IF x = a THEN entry ELSE ps[x]]

\* test.rs MockVerifier::verify: accepts every proof hash but the zero one,
\* whatever the public inputs.
MockVerify(proof_hash, public_inputs) == proof_hash # ZeroHash

\* The verifier's answer ignored: every proof passes.
verify_zk_proof_unchecked(s, proof_hash, public_inputs) == "accepted"

\* verify_zk_proof: "verifier not configured" (a panic), "accepted" or
\* "rejected" (the bool the verifier contract returns).
verify_zk_proof(s, proof_hash, public_inputs) ==
    IF s.verifier = NoVerifier THEN "verifier not configured"
    ELSE IF MockVerify(proof_hash, public_inputs) THEN "accepted"
    ELSE "rejected"

\* The freshness check left out: every nullifier passes as unused.
nullifier_used_skipped(s, n) == FALSE

\* storage().instance().has(&DataKey::UsedNullifier(n))
nullifier_used(s, n) == n \in s.used

\* storage().instance().set(&DataKey::UsedNullifier(n), &true)
consume_nullifier(s, n) == [s EXCEPT !.used = @ \cup {n}]

\* ------------------------------------------------------ public functions
InitState(impostor_count) ==
    [phase |-> "lobby", round |-> 0, meeting_active |-> FALSE,
     impostor_count |-> impostor_count, sabotage_active |-> FALSE,
     winner |-> "none"]

DefaultConfig ==
    [max_players |-> DefaultMaxPlayers, tasks_to_win |-> DefaultTasksToWin]

\* init on a contract whose GameState key is already present.
init(s, adm, impostor_count) == Panic(s, "already initialized")

configure_game(s, caller, max_players, tasks_to_win) ==
    IF require_admin(s, caller) # "ok" THEN Panic(s, require_admin(s, caller))
    ELSE IF max_players < MinPlayers THEN Panic(s, "max_players must be >= 4")
    ELSE IF tasks_to_win = 0 THEN Panic(s, "tasks_to_win must be > 0")
    ELSE Ok([s EXCEPT !.config =
                [max_players |-> max_players, tasks_to_win |-> tasks_to_win]])

set_verifier(s, caller, v) ==
    IF require_admin(s, caller) # "ok" THEN Panic(s, require_admin(s, caller))
    ELSE Ok([s EXCEPT !.verifier = v])

set_phase(s, caller, phase) ==
    IF require_admin(s, caller) # "ok" THEN Panic(s, require_admin(s, caller))
    ELSE Ok([s EXCEPT !.state.phase = phase])

\* The roster-size test left out: the game starts with any roster.
start_game_any_roster(s, caller) ==
    IF require_admin(s, caller) # "ok" THEN Panic(s, require_admin(s, caller))
    ELSE IF s.state.phase # "lobby" THEN Panic(s, "game already started")
    ELSE Ok([s EXCEPT !.state.phase = "playing",
                      !.state.round = 1,
                      !.state.meeting_active = FALSE,
                      !.state.winner = "none"])

start_game(s, caller) ==
    IF require_admin(s, caller) # "ok" THEN Panic(s, require_admin(s, caller))
    ELSE IF s.state.phase # "lobby" THEN Panic(s, "game already started")
    ELSE IF Cardinality(DOMAIN s.players) < MinPlayers
         THEN Panic(s, "need at least 4 players")
    ELSE Ok([s EXCEPT !.state.phase = "playing",
                      !.state.round = 1,
                      !.state.meeting_active = FALSE,
                      !.state.winner = "none"])

\* The new entry written with the vote preset to the player's own commitment.
join_game_vote_preset(s, player, color, name, player_hash, role_hash) ==
    IF ensure_not_ended(s) # "ok" THEN Panic(s, ensure_not_ended(s))
    ELSE IF s.state.phase # "lobby" THEN Panic(s, "joining only allowed in lobby")
    ELSE IF Cardinality(DOMAIN s.players) >= s.config.max_players
         THEN Panic(s, "lobby is full")
    ELSE IF player \in DOMAIN s.players THEN Panic(s, "player already joined")
    ELSE IF \E a \in DOMAIN s.players : s.players[a].player_hash = player_hash
         THEN Panic(s, "duplicate player hash")
    ELSE Ok([s EXCEPT !.players = MapSet(@, player,
                [x |-> 0, y |-> 0, alive |-> TRUE, tasks_done |-> 0,
                 player_hash |-> player_hash, role_hash |-> role_hash,
                 voted_for_hash |-> player_hash, color |-> color, name |-> name])])

\* The scan for an entry with the same player_hash left out.
join_game_no_hash_check(s, player, color, name, player_hash, role_hash) ==
    IF ensure_not_ended(s) # "ok" THEN Panic(s, ensure_not_ended(s))
    ELSE IF s.state.phase # "lobby" THEN Panic(s, "joining only allowed in lobby")
    ELSE IF Cardinality(DOMAIN s.players) >= s.config.max_players
         THEN Panic(s, "lobby is full")
    ELSE IF player \in DOMAIN s.players THEN Panic(s, "player already joined")
    ELSE Ok([s EXCEPT !.players = MapSet(@, player,
                [x |-> 0, y |-> 0, alive |-> TRUE, tasks_done |-> 0,
                 player_hash |-> player_hash, role_hash |-> role_hash,
                 voted_for_hash |-> ZeroHash, color |-> color, name |-> name])])

join_game(s, player, color, name, player_hash, role_hash) ==
    IF ensure_not_ended(s) # "ok" THEN Panic(s, ensure_not_ended(s))
    ELSE IF s.state.phase # "lobby" THEN Panic(s, "joining only allowed in lobby")
    ELSE IF Cardinality(DOMAIN s.players) >= s.config.max_players
         THEN Panic(s, "lobby is full")
    ELSE IF player \in DOMAIN s.players THEN Panic(s, "player already joined")
    ELSE IF \E a \in DOMAIN s.players : s.players[a].player_hash = player_hash
         THEN Panic(s, "duplicate player hash")
    ELSE Ok([s EXCEPT !.players = MapSet(@, player,
                [x |-> 0, y |-> 0, alive |-> TRUE, tasks_done |-> 0,
                 player_hash |-> player_hash, role_hash |-> role_hash,
                 voted_for_hash |-> ZeroHash, color |-> color, name |-> name])])

\* The coordinates written the wrong way round.
submit_move_swapped(s, player, x, y) ==
    IF ensure_not_ended(s) # "ok" THEN Panic(s, ensure_not_ended(s))
    ELSE IF s.state.phase # "playing"
         THEN Panic(s, "movement not allowed in current phase")
    ELSE IF player \notin DOMAIN s.players THEN Panic(s, "player not found")
    ELSE IF ~s.players[player].alive THEN Panic(s, "dead player cannot move")
    ELSE Ok([s EXCEPT !.players =
                MapSet(@, player, [@[player] EXCEPT !.x = y, !.y = x])])

submit_move(s, player, x, y) ==
    IF ensure_not_ended(s) # "ok" THEN Panic(s, ensure_not_ended(s))
    ELSE IF s.state.phase # "playing"
         THEN Panic(s, "movement not allowed in current phase")
    ELSE IF player \notin DOMAIN s.players THEN Panic(s, "player not found")
    ELSE IF ~s.players[player].alive THEN Panic(s, "dead player cannot move")
    ELSE Ok([s EXCEPT !.players =
                MapSet(@, player, [@[player] EXCEPT !.x = x, !.y = y])])

\* The alive test left out: every entry's vote is cleared.
ClearEveryVote(ps) ==
    [a \in DOMAIN ps |-> [ps[a] EXCEPT !.voted_for_hash = ZeroHash]]

\* The loop over players.clone() rewrites the vote of every living entry.
ClearLivingVotes(ps) ==
    [a \in DOMAIN ps |->
        IF ps[a].alive THEN [ps[a] EXCEPT !.voted_for_hash = ZeroHash] ELSE ps[a]]

start_meeting(s, caller) ==
    IF ensure_not_ended(s) # "ok" THEN Panic(s, ensure_not_ended(s))
    ELSE IF caller \notin DOMAIN s.players THEN Panic(s, "caller not found")
    ELSE IF ~s.players[caller].alive
         THEN Panic(s, "dead player cannot start meeting")
    ELSE IF s.state.phase # "playing"
         THEN Panic(s, "meeting can only be started while playing")
    ELSE Ok([s EXCEPT !.state.phase = "meeting",
                      !.state.meeting_active = TRUE,
                      !.state.round = @ + 1,
                      !.players = ClearLivingVotes(@)])

end_meeting(s, caller) ==
    IF require_admin(s, caller) # "ok" THEN Panic(s, require_admin(s, caller))
    ELSE IF s.state.phase # "meeting" THEN Panic(s, "meeting not active")
    ELSE Ok([s EXCEPT !.state.phase = "playing",
                      !.state.meeting_active = FALSE])


\* Map iteration is in key order: the first living entry whose player_hash is
\* the target, or the empty set.
EjectTarget(ps, target) ==
    LET m == {a \in DOMAIN ps : ps[a].alive /\ ps[a].player_hash = target}
    IN  IF m = {} THEN {} ELSE {CHOOSE a \in m : \A b \in m : a <= b}

\* A tie taken for a majority.
is_majority_or_tie(votes_for_target, alive_voters) ==
    votes_for_target * 2 >= alive_voters

\* votes_for_target * 2 > alive_voters
is_majority(votes_for_target, alive_voters) == votes_for_target * 2 > alive_voters

VotesFor(ps, target) ==
    Cardinality({a \in Alive(ps) : ps[a].voted_for_hash = target})

finalize_meeting(s, caller, ejected_player_hash) ==
    IF require_admin(s, caller) # "ok" THEN Panic(s, require_admin(s, caller))
    ELSE IF s.state.phase # "meeting" THEN Panic(s, "meeting not active")
    ELSE
      LET alive_voters == count_alive(s.players)
          votes_for_target == VotesFor(s.players, ejected_player_hash)
          out == IF is_majority(votes_for_target, alive_voters)
                 THEN EjectTarget(s.players, ejected_player_hash) ELSE {}
      IN  IF alive_voters = 0 THEN Panic(s, "no alive voters")
          ELSE Ok([s EXCEPT
                 !.players = [a \in DOMAIN @ |->
                     IF a \in out THEN [@[a] EXCEPT !.alive = FALSE] ELSE @[a]],
                 !.state.phase = "playing",
                 !.state.meeting_active = FALSE])

submit_vote(s, voter, vote) ==
    IF ensure_not_ended(s) # "ok" THEN Panic(s, ensure_not_ended(s))
    ELSE IF s.state.phase # "meeting"
         THEN Panic(s, "voting not allowed in current phase")
    ELSE IF nullifier_used(s, vote.nullifier) THEN Panic(s, "nullifier already used")
    ELSE IF voter \notin DOMAIN s.players THEN Panic(s, "player not found")
    ELSE IF ~s.players[voter].alive THEN Panic(s, "dead player cannot vote")
    ELSE IF s.players[voter].voted_for_hash # ZeroHash
         THEN Panic(s, "player already voted")
    ELSE
      LET v == verify_zk_proof(s, vote.proof_hash, <<vote.nullifier>>)
      IN  IF v = "verifier not configured" THEN Panic(s, v)
          ELSE IF v # "accepted" THEN Panic(s, "invalid vote proof")
          ELSE Ok(consume_nullifier(
                 [s EXCEPT !.players = MapSet(@, voter,
                     [@[voter] EXCEPT !.voted_for_hash = vote.target_hash])],
                 vote.nullifier))

submit_task_proof(s, player, proof) ==
    IF ensure_not_ended(s) # "ok" THEN Panic(s, ensure_not_ended(s))
    ELSE IF s.state.phase # "playing"
         THEN Panic(s, "task submission not allowed in current phase")
    ELSE IF nullifier_used(s, proof.nullifier)
         THEN Panic(s, "task nullifier already used")
    ELSE IF player \notin DOMAIN s.players THEN Panic(s, "player not found")
    ELSE IF ~s.players[player].alive
         THEN Panic(s, "dead player cannot submit tasks")
    ELSE
      LET v == verify_zk_proof(s, proof.proof_hash,
                               Append(proof.public_inputs, proof.nullifier))
          ps == MapSet(s.players, player,
                    [s.players[player] EXCEPT !.tasks_done = @ + 1])
          written == consume_nullifier([s EXCEPT !.players = ps], proof.nullifier)
      IN  IF v = "verifier not configured" THEN Panic(s, v)
          ELSE IF v # "accepted" THEN Panic(s, "invalid task proof")
          ELSE IF total_tasks(ps) >= written.config.tasks_to_win
               THEN Ok(set_winner(written, "crew"))
          ELSE Ok(written)

submit_kill_proof(s, killer, victim, proof) ==
    IF ensure_not_ended(s) # "ok" THEN Panic(s, ensure_not_ended(s))
    ELSE IF s.state.phase # "playing"
         THEN Panic(s, "kills not allowed in current phase")
    ELSE IF nullifier_used(s, proof.nullifier)
         THEN Panic(s, "kill nullifier already used")
    ELSE IF killer \notin DOMAIN s.players THEN Panic(s, "killer not found")
    ELSE IF ~s.players[killer].alive THEN Panic(s, "dead player cannot kill")
    ELSE IF victim \notin DOMAIN s.players THEN Panic(s, "victim not found")
    ELSE IF ~s.players[victim].alive THEN Panic(s, "victim already dead")
    ELSE
      LET v == verify_zk_proof(s, proof.proof_hash,
                               Append(proof.public_inputs, proof.nullifier))
          ps == MapSet(s.players, victim,
                    [s.players[victim] EXCEPT !.alive = FALSE])
          written == consume_nullifier([s EXCEPT !.players = ps], proof.nullifier)
      IN  IF v = "verifier not configured" THEN Panic(s, v)
          ELSE IF v # "accepted" THEN Panic(s, "invalid kill proof")
          ELSE IF count_alive(ps) <= s.state.impostor_count
               THEN Ok(set_winner(written, "impost"))
          ELSE Ok(written)

submit_impostor_win_proof(s, caller, proof) ==
    IF ensure_not_ended(s) # "ok" THEN Panic(s, ensure_not_ended(s))
    ELSE IF nullifier_used(s, proof.nullifier)
         THEN Panic(s, "impostor nullifier already used")
    ELSE
      LET v == verify_zk_proof(s, proof.proof_hash,
                               Append(proof.public_inputs, proof.nullifier))
      IN  IF v = "verifier not configured" THEN Panic(s, v)
          ELSE IF v # "accepted" THEN Panic(s, "invalid impostor win proof")
          ELSE Ok(set_winner(consume_nullifier(s, proof.nullifier), "impost"))

end_game_admin(s, caller, winner) ==
    IF require_admin(s, caller) # "ok" THEN Panic(s, require_admin(s, caller))
    ELSE IF winner # "crew" /\ winner # "impost"
         THEN Panic(s, "invalid winner symbol")
    ELSE Ok(set_winner(s, winner))


\* ------------------------------------------------------------------ inputs
\* The arguments of the calls are drawn from the sets of an input profile I:
\*   admins      callers of the admin-gated functions other than set_phase
\*   overriders  callers of set_phase
\*   phases      set_phase's phase argument
\*   winners     end_game_admin's winner argument
\*   limits      configure_game's max_players argument
\*   goals       configure_game's tasks_to_win argument
\*   joiners     join_game's player argument
\*   hashes      hashes[a]: the player_hash values address a joins with
\*   movers      submit_move's player argument
\*   xs, ys      submit_move's coordinates
\*   actors      callers of start_meeting and of the proof-gated functions
\*   targets     the target hash of submit_vote and finalize_meeting
\*   proofs      proof_hash values
\*   nullifiers  nullifier values
\*   impostors   init's impostor_count
Colors == {"Red"}
Names == {"P1"}
PublicInputs == {<<HashOf(AdminAddr)>>}

Proofs(I) ==
    [proof_hash : I.proofs, nullifier : I.nullifiers, public_inputs : PublicInputs]
Votes(I) ==
    [target_hash : I.targets, proof_hash : I.proofs, nullifier : I.nullifiers]

\* ------------------------------------------------------------ transitions
\* The state after init(AdminAddr, impostor_count).
InitOver(I) ==
    /\ admin = AdminAddr
    /\ verifier = NoVerifier
    /\ config = DefaultConfig
    /\ state \in {InitState(i) : i \in I.impostors}
    /\ players = << >>
    /\ used_nullifiers = {}

\* A call that returns commits its writes; a call that panics leaves nothing.
Commit(r) ==
    IF r.err = "ok"
    THEN /\ admin' = r.store.admin
         /\ verifier' = r.store.verifier
         /\ config' = r.store.config
         /\ state' = r.store.state
         /\ players' = r.store.players
         /\ used_nullifiers' = r.store.used
    ELSE UNCHANGED vars

\* The contract only tests a nullifier for membership in the consumed set, so
\* callers draw them in order: n is a consumed one or the least fresh one.
DrawnInOrder(n) == \A m \in Nullifiers : m < n => m \in used_nullifiers

InitAgain(I) ==
    \E a \in I.admins, i \in I.impostors : Commit(init(Store, a, i))

ConfigureGame(I) ==
    \E c \in I.admins, m \in I.limits, t \in I.goals :
        Commit(configure_game(Store, c, m, t))

SetVerifier(I) ==
    \E c \in I.admins : Commit(set_verifier(Store, c, MockVerifierId))

SetPhase(I) ==
    \E c \in I.overriders, ph \in I.phases :
        Commit(set_phase(Store, c, ph))

StartGame(I) ==
    \E c \in I.admins : Commit(start_game(Store, c))

JoinGame(I) ==
    \E p \in I.joiners, col \in Colors, n \in Names :
        \E h \in I.hashes[p] :
            Commit(join_game(Store, p, col, n, h, RoleOf(p)))

SubmitMove(I) ==
    \E p \in I.movers, x \in I.xs, y \in I.ys :
        Commit(submit_move(Store, p, x, y))

StartMeeting(I) ==
    \E c \in I.actors :
        /\ state.round < MaxRound
        /\ Commit(start_meeting(Store, c))

EndMeeting(I) ==
    \E c \in I.admins : Commit(end_meeting(Store, c))

FinalizeMeeting(I) ==
    \E c \in I.admins, h \in I.targets :
        Commit(finalize_meeting(Store, c, h))

SubmitVote(I) ==
    \E p \in I.actors, v \in Votes(I) :
        /\ DrawnInOrder(v.nullifier)
        /\ Commit(submit_vote(Store, p, v))

SubmitTaskProof(I) ==
    \E p \in I.actors, pr \in Proofs(I) :
        /\ DrawnInOrder(pr.nullifier)
        /\ Commit(submit_task_proof(Store, p, pr))

SubmitKillProof(I) ==
    \E k \in I.actors, v \in I.actors, pr \in Proofs(I) :
        /\ DrawnInOrder(pr.nullifier)
        /\ Commit(submit_kill_proof(Store, k, v, pr))

SubmitImpostorWinProof(I) ==
    \E c \in I.actors, pr \in Proofs(I) :
        /\ DrawnInOrder(pr.nullifier)
        /\ Commit(submit_impostor_win_proof(Store, c, pr))

EndGameAdmin(I) ==
    \E c \in I.admins, w \in I.winners :
        Commit(end_game_admin(Store, c, w))

NextOver(I) ==
    \/ InitAgain(I)
    \/ ConfigureGame(I)
    \/ SetVerifier(I)
    \/ SetPhase(I)
    \/ StartGame(I)
    \/ JoinGame(I)
    \/ SubmitMove(I)
    \/ StartMeeting(I)
    \/ EndMeeting(I)
    \/ FinalizeMeeting(I)
    \/ SubmitVote(I)
    \/ SubmitTaskProof(I)
    \/ SubmitKillProof(I)
    \/ SubmitImpostorWinProof(I)
    \/ EndGameAdmin(I)

\* -------------------------------------------------------------- profiles
\* The game played by the book: the admin configures, starts the game and
\* closes the meetings; the players move, meet, vote, work and kill with
\* every combination of proofs and nullifiers.  set_phase and
\* end_game_admin are called with arguments the contract refuses.
PlayInputs ==
    [admins |-> {AdminAddr, 1},
     overriders |-> {1},
     phases |-> PhaseSymbols,
     winners |-> {"none"},
     limits |-> {MinPlayers - 1, MinPlayers},
     goals |-> {0, TasksGoal},
     joiners |-> 1..MinPlayers,
     hashes |-> [a \in Addresses |->
                    IF a = MinPlayers THEN {HashOf(a), ZeroHash} ELSE {HashOf(a)}],
     movers |-> {1},
     xs |-> {1},
     ys |-> {2},
     actors |-> 1..MinPlayers,
     targets |-> {ZeroHash, HashOf(2)},
     proofs |-> {ZeroHash, HashOf(AdminAddr)},
     nullifiers |-> Nullifiers,
     impostors |-> {ImpostorCount}]

\* The admin uses every override: any phase symbol, any winner, any
\* configuration, at any time; every address may join, address 1 with its own
\* commitment or with that of address 2 (so player_hash values can collide);
\* two players act, with one nullifier.
OverrideInputs ==
    [admins |-> {AdminAddr, 1},
     overriders |-> {AdminAddr, 1},
     phases |-> PhaseSymbols \cup {OtherSymbol},
     winners |-> WinnerSymbols,
     limits |-> {MinPlayers - 1, MinPlayers},
     goals |-> {0, TasksGoal},
     joiners |-> Addresses,
     hashes |-> [a \in Addresses |->
                    IF a = 1 THEN {HashOf(1), HashOf(2)} ELSE {HashOf(a)}],
     movers |-> {1},
     xs |-> {1},
     ys |-> {2},
     actors |-> {1, 2},
     targets |-> {ZeroHash, HashOf(1)},
     proofs |-> {ZeroHash, HashOf(AdminAddr)},
     nullifiers |-> {1},
     impostors |-> {ImpostorCount}]

Init == InitOver(OverrideInputs)
Next == NextOver(OverrideInputs)
Spec == Init /\ [][Next]_vars

InitPlay == InitOver(PlayInputs)
NextPlay == NextOver(PlayInputs)
SpecPlay == InitPlay /\ [][NextPlay]_vars


\* ------------------------------------------------------------ properties
\* Every argument a call can carry, whatever the profile explored.
ProofHashes == {ZeroHash, HashOf(AdminAddr)}
AnyProofs ==
    [proof_hash : ProofHashes, nullifier : Nullifiers, public_inputs : PublicInputs]
AnyVotes ==
    [target_hash : Hashes, proof_hash : ProofHashes, nullifier : Nullifiers]

\* Every submission of the four proof-gated kinds that carries nullifier n
\* panics in the current state, for every caller, victim, target and proof.
ReplayFails(n) ==
    /\ \A p \in Addresses, v \in AnyVotes :
          v.nullifier = n => submit_vote(Store, p, v).err # "ok"
    /\ \A p \in Addresses, pr \in AnyProofs :
          pr.nullifier = n =>
             /\ submit_task_proof(Store, p, pr).err # "ok"
             /\ submit_impostor_win_proof(Store, p, pr).err # "ok"
             /\ \A q \in Addresses : submit_kill_proof(Store, p, q, pr).err # "ok"

\* C1: a consumed nullifier stays consumed over every step, and in every
\* reachable state every vote, task, kill and impostor-win submission that
\* carries a consumed nullifier fails, whether its proof is acceptable or not.
C1_ConsumedNullifierNeverAccepted ==
    /\ [](\A n \in used_nullifiers : ReplayFails(n))
    /\ [][used_nullifiers \subseteq used_nullifiers']_vars

\* C1 witness: the only consumed nullifier was spent by a vote, and a task
\* submission that would succeed with a fresh nullifier is refused because it
\* carries the consumed one.
C1_Witness ==
    \E n \in Nullifiers, p \in Addresses, pr \in AnyProofs :
        /\ used_nullifiers = {n}
        /\ pr.nullifier = n
        /\ \E q \in DOMAIN players : players[q].voted_for_hash # ZeroHash
        /\ \A q \in DOMAIN players : players[q].alive /\ players[q].tasks_done = 0
        /\ submit_task_proof(Store, p, pr).err = "task nullifier already used"
        /\ submit_task_proof([Store EXCEPT !.used = {}], p, pr).err = "ok"

\* The verifier refuses the proof: no verifier is configured, or the verifier
\* contract answers false.
Refused(proof_hash, public_inputs) ==
    \/ verifier = NoVerifier
    \/ ~MockVerify(proof_hash, public_inputs)

\* The call panicked and the storage is what it was.
NoEffect(r) == r.err # "ok" /\ r.store = Store

\* C2: a vote, task, kill or impostor-win submission whose proof the verifier
\* refuses (or with no verifier configured) leaves roster, game state and
\* nullifier set unchanged; its nullifier is not consumed.
C2_RefusedProofChangesNothing ==
    /\ \A p \in Addresses, v \in AnyVotes :
          Refused(v.proof_hash, <<v.nullifier>>) => NoEffect(submit_vote(Store, p, v))
    /\ \A p \in Addresses, pr \in AnyProofs :
          Refused(pr.proof_hash, Append(pr.public_inputs, pr.nullifier)) =>
             /\ NoEffect(submit_task_proof(Store, p, pr))
             /\ NoEffect(submit_impostor_win_proof(Store, p, pr))
             /\ \A q \in Addresses : NoEffect(submit_kill_proof(Store, p, q, pr))

\* C2 witness: with a verifier configured and a nullifier already spent, a
\* kill submission is refused for its proof alone, and the same submission
\* with an acceptable proof and the same, still unused, nullifier is accepted.
C2_Witness ==
    /\ verifier = MockVerifierId
    /\ used_nullifiers # {}
    /\ \E k \in Addresses, q \in Addresses, pr \in AnyProofs :
          /\ pr.proof_hash = ZeroHash
          /\ submit_kill_proof(Store, k, q, pr).err = "invalid kill proof"
          /\ submit_kill_proof(Store, k, q,
                 [pr EXCEPT !.proof_hash = HashOf(AdminAddr)]).err = "ok"


\* C3: once the phase is "ended", no step moves it to another value.
C3_EndedIsTerminal ==
    [][state.phase = "ended" => state'.phase = "ended"]_vars

\* The call is refused for the game having ended, and changes nothing.
RefusedAsEnded(r) == r.err = "game already ended" /\ r.store = Store

\* C4: with the phase "ended", every state-mutating public function fails
\* with "game already ended" and changes nothing, whoever calls it and
\* whatever its arguments.
C4_EveryActionRefusedOnceEnded ==
    state.phase = "ended" =>
      /\ \A c \in Addresses :
            /\ \A m \in {MinPlayers - 1, MinPlayers}, g \in {0, TasksGoal} :
                  RefusedAsEnded(configure_game(Store, c, m, g))
            /\ \A ph \in PhaseSymbols : RefusedAsEnded(set_phase(Store, c, ph))
            /\ RefusedAsEnded(start_game(Store, c))
            /\ \A h \in Hashes :
                  RefusedAsEnded(join_game(Store, c, "Red", "P1", h, RoleOf(c)))
            /\ RefusedAsEnded(submit_move(Store, c, 1, 2))
            /\ RefusedAsEnded(start_meeting(Store, c))
            /\ RefusedAsEnded(end_meeting(Store, c))
            /\ \A h \in Hashes : RefusedAsEnded(finalize_meeting(Store, c, h))
            /\ \A v \in AnyVotes : RefusedAsEnded(submit_vote(Store, c, v))
            /\ \A pr \in AnyProofs :
                  /\ RefusedAsEnded(submit_task_proof(Store, c, pr))
                  /\ RefusedAsEnded(submit_impostor_win_proof(Store, c, pr))
                  /\ \A q \in Addresses :
                        RefusedAsEnded(submit_kill_proof(Store, c, q, pr))
            /\ \A w \in WinnerSymbols : RefusedAsEnded(end_game_admin(Store, c, w))

\* C5: phase "ended" implies a winner other than "none", and phase "meeting"
\* implies meeting_active.
C5_PhaseInvariant ==
    /\ state.phase = "ended" => state.winner # "none"
    /\ state.phase = "meeting" => state.meeting_active

\* C6: finalize_meeting by the admin in phase "meeting" marks a player dead
\* exactly when more than half of the living players voted for the target and
\* a living entry carries the target as player_hash; it then marks that entry
\* and no other; on a tie or less the roster is left as it was.
C6_FinalizeEjectsOnStrictMajorityOnly ==
    state.phase = "meeting" =>
      \A h \in Hashes :
         LET r == finalize_meeting(Store, admin, h)
             living == {a \in DOMAIN players : players[a].alive}
             votes == Cardinality({a \in living : players[a].voted_for_hash = h})
             holders == {a \in living : players[a].player_hash = h}
             eject == votes * 2 > Cardinality(living) /\ holders # {}
         IN  /\ eject =>
                  \E a \in holders :
                     r.store.players = [players EXCEPT ![a].alive = FALSE]
             /\ ~eject => r.store.players = players

\* C6 witness: a meeting of four living players of whom three voted for a
\* fourth, whom finalize_meeting then ejects.
C6_Witness ==
    /\ state.phase = "meeting"
    /\ Cardinality({a \in DOMAIN players : players[a].alive}) = 4
    /\ \E t \in DOMAIN players :
          /\ players[t].alive
          /\ players[t].player_hash # ZeroHash
          /\ Cardinality({a \in DOMAIN players :
                 players[a].alive /\ players[a].voted_for_hash
                                       = players[t].player_hash}) = 3
          /\ ~finalize_meeting(Store, admin, players[t].player_hash)
                 .store.players[t].alive

\* C7: a start_meeting that returns was called in phase "playing" by a living
\* roster member; it leaves the phase "meeting", every living player's vote
\* at the zero hash, and every dead player's entry and every other field of
\* every entry as they were.
C7_StartMeetingClearsLivingVotesOnly ==
    \A c \in Addresses :
       LET r == start_meeting(Store, c)
       IN  r.err = "ok" =>
             /\ state.phase = "playing"
             /\ c \in DOMAIN players /\ players[c].alive
             /\ r.store.state.phase = "meeting"
             /\ DOMAIN r.store.players = DOMAIN players
             /\ \A a \in DOMAIN players :
                   r.store.players[a] =
                      IF players[a].alive
                      THEN [players[a] EXCEPT !.voted_for_hash = ZeroHash]
                      ELSE players[a]

\* C7 witness: a second meeting is running (start_meeting returned twice),
\* no living player has voted yet, and a dead player still carries the vote
\* cast in the first meeting.
C7_Witness ==
    /\ state.phase = "meeting"
    /\ state.round = 3
    /\ \E a \in DOMAIN players :
          ~players[a].alive /\ players[a].voted_for_hash # ZeroHash
    /\ \E a \in DOMAIN players : players[a].alive
    /\ \A a \in DOMAIN players :
          players[a].alive => players[a].voted_for_hash = ZeroHash

\* C8: after a submit_vote by a voter returns, every further submit_vote by
\* that voter fails, whatever the target hash of either vote.
C8_OneVotePerMeeting ==
    \A p \in Addresses, v \in AnyVotes :
       LET r == submit_vote(Store, p, v)
       IN  r.err = "ok" =>
             /\ r.store.players[p].voted_for_hash = v.target_hash
             /\ \A w \in AnyVotes : submit_vote(r.store, p, w).err # "ok"

\* C9: after a submit_task_proof that returns, the submitting player's
\* tasks_done is one more and no other entry changed; if the tasks of the
\* whole roster now reach tasks_to_win the phase is "ended" and the winner
\* "crew", otherwise phase and winner are as before.
C9_TaskProofAndCrewWin ==
    \A p \in Addresses, pr \in AnyProofs :
       LET r == submit_task_proof(Store, p, pr)
       IN  r.err = "ok" =>
             /\ r.store.players =
                   [players EXCEPT ![p].tasks_done = players[p].tasks_done + 1]
             /\ IF SumTasks(r.store.players, DOMAIN players) >= config.tasks_to_win
                THEN /\ r.store.state.phase = "ended"
                     /\ r.store.state.winner = "crew"
                ELSE /\ r.store.state.phase = state.phase
                     /\ r.store.state.winner = state.winner

\* C9 witness: a task submission by a living player returns and ends the
\* game for the crew, the tasks of a dead player making up the total.
C9_Witness ==
    \E p \in Addresses, pr \in AnyProofs :
       LET r == submit_task_proof(Store, p, pr)
       IN  /\ r.err = "ok"
           /\ state.phase = "playing" /\ state.winner = "none"
           /\ r.store.state.phase = "ended" /\ r.store.state.winner = "crew"
           /\ SumTasks(players, DOMAIN players) = config.tasks_to_win - 1
           /\ \E a \in DOMAIN players :
                 ~players[a].alive /\ players[a].tasks_done > 0

\* C10: after a submit_kill_proof that returns the victim is dead; if the
\* living players are then at most impostor_count the phase is "ended" and
\* the winner "impost", otherwise phase and winner are as before.
C10_KillAndImpostorWin ==
    \A k \in Addresses, q \in Addresses, pr \in AnyProofs :
       LET r == submit_kill_proof(Store, k, q, pr)
           living == {a \in DOMAIN players : r.store.players[a].alive}
       IN  r.err = "ok" =>
             /\ ~r.store.players[q].alive
             /\ IF Cardinality(living) <= state.impostor_count
                THEN /\ r.store.state.phase = "ended"
                     /\ r.store.state.winner = "impost"
                ELSE /\ r.store.state.phase = state.phase
                     /\ r.store.state.winner = state.winner

\* C10 witness: a kill returns and ends the game for the impostors, leaving
\* as many living players as there are impostors.
C10_Witness ==
    \E k \in Addresses, q \in Addresses, pr \in AnyProofs :
       LET r == submit_kill_proof(Store, k, q, pr)
       IN  /\ r.err = "ok"
           /\ k # q
           /\ state.phase = "playing" /\ state.winner = "none"
           /\ r.store.state.phase = "ended" /\ r.store.state.winner = "impost"
           /\ Cardinality({a \in DOMAIN players : players[a].alive})
                 = state.impostor_count + 1
           /\ Cardinality(DOMAIN players) = MinPlayers

\* C11: start_game called by the admin fails and changes nothing in every
\* phase other than "lobby", and in "lobby" with fewer than 4 roster entries;
\* in "lobby" with 4 or more entries it returns and leaves phase "playing",
\* round 1, meeting_active false and winner "none".
C11_StartGameNeedsLobbyAndFourPlayers ==
    LET r == start_game(Store, admin)
    IN  IF state.phase = "lobby" /\ Cardinality(DOMAIN players) >= MinPlayers
        THEN /\ r.err = "ok"
             /\ r.store.state.phase = "playing"
             /\ r.store.state.round = 1
             /\ r.store.state.meeting_active = FALSE
             /\ r.store.state.winner = "none"
        ELSE NoEffect(r)

\* C11 witness: the lobby holds four players after an earlier game left a
\* winner and a round above 1 behind, and start_game returns.
C11_Witness ==
    /\ state.phase = "lobby"
    /\ Cardinality(DOMAIN players) >= MinPlayers
    /\ state.winner # "none"
    /\ state.round > 1
    /\ start_game(Store, admin).err = "ok"
    /\ start_game(Store, admin).store.state.round = 1

\* Some roster entry carries h as its player_hash.
HashInUse(h) == \E a \in DOMAIN players : players[a].player_hash = h

\* C12: join_game returns exactly when the phase is "lobby", the roster is
\* smaller than max_players, the caller is not in the roster and the
\* player_hash is not in use; the roster then has one entry more, every
\* earlier entry is as it was, and the new entry is at (0,0), alive, with no
\* task done and the zero hash as vote.
C12_JoinAddsOneFreshEntry ==
    \A p \in Addresses, h \in Hashes :
       LET r == join_game(Store, p, "Red", "P1", h, RoleOf(p))
           new == r.store.players
       IN  /\ r.err = "ok" <=>
                /\ state.phase = "lobby"
                /\ Cardinality(DOMAIN players) < config.max_players
                /\ p \notin DOMAIN players
                /\ ~HashInUse(h)
           /\ r.err = "ok" =>
                /\ Cardinality(DOMAIN new) = Cardinality(DOMAIN players) + 1
                /\ DOMAIN new = DOMAIN players \cup {p}
                /\ \A a \in DOMAIN players : new[a] = players[a]
                /\ new[p].x = 0 /\ new[p].y = 0
                /\ new[p].alive
                /\ new[p].tasks_done = 0
                /\ new[p].voted_for_hash = ZeroHash
                /\ new[p].player_hash = h

\* C12 witness: a lobby that already holds players who have played (one is
\* dead), and a join that returns.
C12_Witness ==
    /\ state.phase = "lobby"
    /\ \E a \in DOMAIN players : ~players[a].alive
    /\ \E p \in Addresses, h \in Hashes :
          join_game(Store, p, "Red", "P1", h, RoleOf(p)).err = "ok"

\* C13: the player_hash values of the roster entries are pairwise distinct,
\* and a join_game whose player_hash is in use fails and changes nothing.
C13_PlayerHashesDistinct ==
    /\ \A a, b \in DOMAIN players :
          players[a].player_hash = players[b].player_hash => a = b
    /\ \A p \in Addresses, h \in Hashes :
          HashInUse(h) =>
             NoEffect(join_game(Store, p, "Red", "P1", h, RoleOf(p)))

\* C13 witness: in a lobby with room left, an address not in the roster is
\* refused for nothing but its player_hash, which another entry carries.
C13_Witness ==
    /\ state.phase = "lobby"
    /\ \E p \in Addresses, a \in DOMAIN players :
          /\ p \notin DOMAIN players
          /\ join_game(Store, p, "Red", "P1", players[a].player_hash,
                       RoleOf(p)).err = "duplicate player hash"
          /\ join_game(Store, p, "Red", "P1", HashOf(p), RoleOf(p)).err = "ok"

\* C14: the roster never holds more entries than the configured max_players.
C14_RosterWithinMaxPlayers ==
    Cardinality(DOMAIN players) <= config.max_players

\* C15: in every phase but "ended", submit_impostor_win_proof with an unused
\* nullifier and a proof the configured verifier accepts returns for every
\* caller, and leaves phase "ended", winner "impost", meeting_active false,
\* the nullifier consumed and the roster as it was.
C15_ImpostorWinProofEndsGame ==
    state.phase # "ended" =>
      \A c \in Addresses, pr \in AnyProofs :
         LET r == submit_impostor_win_proof(Store, c, pr)
         IN  (/\ pr.nullifier \notin used_nullifiers
              /\ ~Refused(pr.proof_hash, Append(pr.public_inputs, pr.nullifier)))
             => /\ r.err = "ok"
                /\ r.store.state.phase = "ended"
                /\ r.store.state.winner = "impost"
                /\ r.store.state.meeting_active = FALSE
                /\ r.store.players = players
                /\ r.store.used = used_nullifiers \cup {pr.nullifier}

\* C15 witness: a meeting is running, more players are alive than there are
\* impostors, and an address outside the roster ends the game with an
\* accepted impostor-win proof.
C15_Witness ==
    /\ state.phase = "meeting" /\ state.meeting_active
    /\ Cardinality({a \in DOMAIN players : players[a].alive})
          > state.impostor_count
    /\ \E c \in Addresses, pr \in AnyProofs :
          /\ c \notin DOMAIN players
          /\ submit_impostor_win_proof(Store, c, pr).err = "ok"
          /\ submit_impostor_win_proof(Store, c, pr).store.state.winner = "impost"

\* C16: every admin-gated function called by an address other than the
\* stored admin fails and changes nothing, whatever its arguments, and the
\* stored admin is the one given to init.
C16_OnlyAdminPassesAdminGate ==
    /\ admin = AdminAddr
    /\ \A c \in Addresses \ {admin} :
          /\ \A m \in {MinPlayers - 1, MinPlayers}, g \in {0, TasksGoal} :
                NoEffect(configure_game(Store, c, m, g))
          /\ NoEffect(set_verifier(Store, c, MockVerifierId))
          /\ \A ph \in PhaseSymbols \cup {OtherSymbol} :
                NoEffect(set_phase(Store, c, ph))
          /\ NoEffect(start_game(Store, c))
          /\ NoEffect(end_meeting(Store, c))
          /\ \A h \in Hashes : NoEffect(finalize_meeting(Store, c, h))
          /\ \A w \in WinnerSymbols : NoEffect(end_game_admin(Store, c, w))

\* C16 witness: a meeting that the admin can close and that a living player
\* of the roster cannot.
C16_Witness ==
    /\ state.phase = "meeting"
    /\ \E c \in DOMAIN players :
          /\ c # admin
          /\ players[c].alive
          /\ end_meeting(Store, c).err = "not admin"
          /\ finalize_meeting(Store, c, ZeroHash).err = "not admin"
    /\ end_meeting(Store, admin).err = "ok"

\* The coordinates submit_move is called with.
Coords == {0, 1, 2}

\* C17: submit_move returns exactly when the phase is "playing" and the
\* caller is a living roster member; it then leaves the caller at (x, y) and
\* every other field of the storage as it was; otherwise it changes nothing.
C17_MoveWritesPositionOnly ==
    \A p \in Addresses, x \in Coords, y \in Coords :
       LET r == submit_move(Store, p, x, y)
       IN  /\ r.err = "ok" <=>
                /\ state.phase = "playing"
                /\ p \in DOMAIN players
                /\ players[p].alive
           /\ r.err = "ok" =>
                r.store = [Store EXCEPT !.players[p].x = x, !.players[p].y = y]
           /\ r.err # "ok" => r.store = Store

\* C17 witness: a player who has moved already, has a task done and has a
\* vote recorded moves again, while a dead player's move is refused.
C17_Witness ==
    /\ state.phase = "playing"
    /\ \E p \in DOMAIN players :
          /\ players[p].x = 1 /\ players[p].y = 2
          /\ players[p].tasks_done > 0
          /\ players[p].voted_for_hash # ZeroHash
          /\ submit_move(Store, p, 2, 0).err = "ok"
    /\ \E q \in DOMAIN players :
          submit_move(Store, q, 2, 0).err = "dead player cannot move"

\* C18: in finalize_meeting a living player whose vote is still the sentinel
\* the meeting started with counts among the alive voters and never among
\* the votes for the target: for every target hash, the zero hash included,
\* a player is ejected only if more than half of the living players carry a
\* vote other than the sentinel that names the target.
C18_AbstainersNeverCountForTarget ==
    state.phase = "meeting" =>
      \A h \in Hashes :
         LET r == finalize_meeting(Store, admin, h)
             living == {a \in DOMAIN players : players[a].alive}
             cast == {a \in living : players[a].voted_for_hash # ZeroHash}
             votes == Cardinality({a \in cast : players[a].voted_for_hash = h})
         IN  r.store.players # players => votes * 2 > Cardinality(living)

\* C19: a submit_kill_proof that returns was called by a living roster
\* member with a living roster member other than the caller as victim; with
\* the caller as victim it fails and changes nothing.
C19_KillNeedsDistinctLivingVictim ==
    \A k \in Addresses, q \in Addresses, pr \in AnyProofs :
       LET r == submit_kill_proof(Store, k, q, pr)
       IN  /\ r.err = "ok" =>
                /\ k \in DOMAIN players /\ players[k].alive
                /\ q \in DOMAIN players /\ players[q].alive
                /\ k # q
           /\ k = q => NoEffect(r)

\* C20: over every step the round stays as it is or grows by exactly 1 (from
\* 0 to 1 on start_game, by one on start_meeting); it never decreases.
C20_RoundMonotonic ==
    [][\/ state'.round = state.round
       \/ state'.round = state.round + 1]_vars

\* Player a is alive before the step and dead after it.
Dies(a) == players[a].alive /\ ~players'[a].alive

\* The step is a submit_kill_proof that returned, with a as victim.
KilledBy(a) ==
    \E k \in Addresses, pr \in AnyProofs :
       LET r == submit_kill_proof(Store, k, a, pr)
       IN  r.err = "ok" /\ r.store = Store'

\* The step is a finalize_meeting that returned, with a's commitment as target.
EjectedBy(a) ==
    \E c \in Addresses :
       LET r == finalize_meeting(Store, c, players[a].player_hash)
       IN  r.err = "ok" /\ r.store = Store'

\* C21: over every step the set of roster addresses only grows and a dead
\* player stays dead; a step in which a player dies is a submit_kill_proof
\* with that player as victim or a finalize_meeting with that player's
\* commitment as target.
C21_RosterGrowsAndDeathIsPermanent ==
    [][/\ DOMAIN players \subseteq DOMAIN players'
       /\ \A a \in DOMAIN players :
             /\ ~players[a].alive => ~players'[a].alive
             /\ Dies(a) => KilledBy(a) \/ EjectedBy(a)]_vars

\* C21 witness: a meeting with one player dead already, in which
\* finalize_meeting ejects a second one and leaves the roster's addresses
\* and the dead player as they are.
C21_Witness ==
    /\ state.phase = "meeting"
    /\ Cardinality(DOMAIN players) = MinPlayers
    /\ \E d \in DOMAIN players, t \in DOMAIN players, h \in Hashes :
          LET r == finalize_meeting(Store, admin, h)
          IN  /\ ~players[d].alive
              /\ players[t].alive
              /\ r.err = "ok"
              /\ DOMAIN r.store.players = DOMAIN players
              /\ ~r.store.players[t].alive
              /\ ~r.store.players[d].alive

\* C22: the phase is one of "lobby", "playing", "meeting", "ended" and the
\* winner one of "none", "crew", "impost".
C22_EnumFieldsInRange ==
    /\ state.phase \in PhaseSymbols
    /\ state.winner \in WinnerSymbols

\* C23: in phase "playing" more players are alive than there are impostors.
C23_PlayingImpliesCrewOutnumbers ==
    state.phase = "playing" =>
       Cardinality({a \in DOMAIN players : players[a].alive})
          > state.impostor_count

====
